---------------------------- MODULE Spec2Model ----------------------------
(***************************************************************************)
(* CHIP.STREAM (src/app.py): the JSON catalog store, the multipart         *)
(* decoder, the upload / delete / list / random handlers and the          *)
(* range-aware streaming engine with its .fc -> WAV transcoder.            *)
(*                                                                         *)
(* Byte strings (bytes) and text (str) are sequences of integers: a byte   *)
(* is 0..255, a decoded character is its code point.  Indices in the       *)
(* helper operators are Python's (0-based, end exclusive).                 *)
(***************************************************************************)
EXTENDS Integers, Sequences, FiniteSets, TLC

(***************************************************************************)
(* The rank of each field name of the records of this model.  TLC keeps    *)
(* the fields of a record in the order in which their names first occur in *)
(* the module, and a record written with its fields in that order is in    *)
(* normal form as built, so that TLC's workers never reorder a value they  *)
(* share.  Every record below lists its fields by increasing rank.         *)
(***************************************************************************)
FieldRank ==
    [ fields |-> 1, ok |-> 2, value |-> 3, chunk_size |-> 4,
      channels |-> 5, sample_rate |-> 6, byte_rate |-> 7,
      block_align |-> 8, bit_depth |-> 9, pcm_size |-> 10, kind |-> 11,
      none |-> 12, op |-> 13, status |-> 14, content_length |-> 15,
      content_range |-> 16, db |-> 17, files |-> 18, state |-> 19,
      id |-> 20, arg |-> 21, songs |-> 22, ret |-> 23, retpc |-> 24,
      error |-> 25, thread |-> 26, req |-> 27, resp |-> 28, before |-> 29,
      after |-> 30, meta |-> 31, target |-> 32, start |-> 33, end |-> 34,
      content_type |-> 35, body |-> 36, json |-> 37, exc |-> 38,
      write_failed |-> 39, form |-> 40, song |-> 41, q |-> 42,
      range |-> 43, length |-> 44, f |-> 45, pos |-> 46, remaining |-> 47,
      wav_header |-> 48, done |-> 49, result |-> 50, has_file |-> 51,
      title |-> 52, artist |-> 53, comment |-> 54, file_data |-> 55,
      name |-> 56, filename |-> 57, ext |-> 58, size |-> 59,
      payload |-> 60, content |-> 61, exclude |-> 62 ]

(***************************************************************************)
(* Bounds of the model.                                                    *)
(***************************************************************************)
MaxParts == 3

MaxFileLen == 3

MaxOff == 4

MaxCalls == 2

MaxReqs == 2

NThreads == 2

(***************************************************************************)
(* Python values.                                                          *)
(***************************************************************************)
\* None, kept apart from every byte string (whose elements are >= 0).
None == << -1 >>

Min(S) == CHOOSE x \in S : \A y \in S : x <= y

Max(S) == CHOOSE x \in S : \A y \in S : x >= y

\* s[i:j] for 0 <= i, clipped like a Python slice.
Slice(s, i, j) == SubSeq(s, i + 1, IF j > Len(s) THEN Len(s) ELSE j)

\* s[i:]
From(s, i) == SubSeq(s, i + 1, Len(s))

\* s.startswith(p)
StartsWith(s, p) == Len(s) >= Len(p) /\ SubSeq(s, 1, Len(p)) = p

\* s.find(p): the lowest index where p occurs in s, or -1.
Find(s, p) ==
    LET idx == { i \in 0..(Len(s) - Len(p)) : SubSeq(s, i + 1, i + Len(p)) = p }
    IN  IF idx = {} THEN -1 ELSE Min(idx)

\* s.rfind(p)
RFind(s, p) ==
    LET idx == { i \in 0..(Len(s) - Len(p)) : SubSeq(s, i + 1, i + Len(p)) = p }
    IN  IF idx = {} THEN -1 ELSE Max(idx)

\* p in s
Contains(s, p) == Find(s, p) # -1

\* s.split(d), d non-empty: never an empty list.
RECURSIVE Split(_, _)
Split(s, d) ==
    LET i == Find(s, d)
    IN  IF i = -1 THEN << s >>
        ELSE << Slice(s, 0, i) >> \o Split(From(s, i + Len(d)), d)

\* s.partition(d): <<before, after>>; the whole of s and an empty tail when
\* d does not occur.
Partition(s, d) ==
    LET i == Find(s, d)
    IN  IF i = -1 THEN << s, << >> >>
        ELSE << Slice(s, 0, i), From(s, i + Len(d)) >>

\* s.rstrip(chars): drops every trailing element that is in the set chars.
RECURSIVE RStrip(_, _)
RStrip(s, chars) ==
    IF Len(s) > 0 /\ s[Len(s)] \in chars
    THEN RStrip(SubSeq(s, 1, Len(s) - 1), chars)
    ELSE s

\* s.lstrip(chars)
RECURSIVE LStrip(_, _)
LStrip(s, chars) ==
    IF Len(s) > 0 /\ s[1] \in chars THEN LStrip(Tail(s), chars) ELSE s

\* s.strip(chars)
Strip(s, chars) == RStrip(LStrip(s, chars), chars)

\* The characters str.strip() drops, within ASCII:
\* \t \n \v \f \r \x1c \x1d \x1e \x1f and the space.
StrWhitespace == {9, 10, 11, 12, 13, 28, 29, 30, 31, 32}

\* The characters int() drops around an ASCII numeral: \t \n \v \f \r and
\* the space.
IntWhitespace == {9, 10, 11, 12, 13, 32}

\* The ASCII line boundaries of str.splitlines().
LineBreaks == {10, 11, 12, 13, 28, 29, 30}

\* str.lower() on ASCII letters; other code points are left alone.
Lower(s) == [ i \in 1..Len(s) |-> IF s[i] >= 65 /\ s[i] <= 90 THEN s[i] + 32 ELSE s[i] ]

\* bytes.decode(errors="replace") for bodies made of ASCII bytes and of
\* bytes that start no valid UTF-8 sequence (0x80..0xFF standing alone):
\* each of the latter becomes U+FFFD.
Decode(b) == [ i \in 1..Len(b) |-> IF b[i] < 128 THEN b[i] ELSE 65533 ]

\* str.splitlines(): the lines without their line breaks; \r\n is one break
\* and a trailing break opens no empty last line.
RECURSIVE SplitLines(_)
SplitLines(s) ==
    IF Len(s) = 0 THEN << >>
    ELSE LET brk == { i \in 1..Len(s) : s[i] \in LineBreaks }
         IN  IF brk = {} THEN << s >>
             ELSE LET i == Min(brk)
                      n == IF s[i] = 13 /\ i < Len(s) /\ s[i + 1] = 10 THEN 2 ELSE 1
                  IN  << SubSeq(s, 1, i - 1) >> \o SplitLines(From(s, i - 1 + n))

\* A dict that keeps the first value stored under a key.
DictPutIfAbsent(d, key, value) ==
    IF key \in DOMAIN d THEN d
    ELSE [ k \in DOMAIN d \cup {key} |-> IF k = key THEN value ELSE d[k] ]

\* dict[key] = value
DictPut(d, key, value) ==
    [ k \in (DOMAIN d) \cup {key} |-> IF k = key THEN value ELSE d[k] ]

\* dict.get(key, default)
DictGet(d, key, default) == IF key \in DOMAIN d THEN d[key] ELSE default

(***************************************************************************)
(* Text of the program.                                                    *)
(***************************************************************************)
\* "\r\n"
CRLF == << 13, 10 >>

\* "\r\n\r\n"
CRLFCRLF == << 13, 10, 13, 10 >>

\* "--"
DASHDASH == << 45, 45 >>

\* "content-disposition"
s_content_disposition ==
    << 99, 111, 110, 116, 101, 110, 116, 45, 100, 105, 115, 112, 111, 115,
       105, 116, 105, 111, 110 >>

\* "name="
s_name_eq == << 110, 97, 109, 101, 61 >>

\* "filename="
s_filename_eq == << 102, 105, 108, 101, 110, 97, 109, 101, 61 >>

(***************************************************************************)
(* _parse_multipart (src/app.py 332-375).                                  *)
(***************************************************************************)
\* The first header line that starts with "content-disposition" (compared
\* in lower case), or "" when there is none (lines 353-357).
RECURSIVE FirstDisposition(_)
FirstDisposition(lines) ==
    IF Len(lines) = 0 THEN << >>
    ELSE IF StartsWith(Lower(Head(lines)), s_content_disposition) THEN Head(lines)
    ELSE FirstDisposition(Tail(lines))

\* The loop over disp.split(";") (lines 360-367): nf is <<name, fn>>.
RECURSIVE ParseSegs(_, _)
ParseSegs(segs, nf) ==
    IF Len(segs) = 0 THEN nf
    ELSE LET seg == Strip(Head(segs), StrWhitespace)
             nf2 == IF StartsWith(seg, s_name_eq)
                       THEN << Strip(From(seg, 5), {34}), nf[2] >>
                    ELSE IF StartsWith(seg, s_filename_eq)
                       THEN << nf[1], Strip(From(seg, 9), {34}) >>
                    ELSE nf
         IN  ParseSegs(Tail(segs), nf2)

\* content.rstrip(b"\r\n").rstrip(b"--").rstrip(b"\r\n") (line 350): each
\* rstrip drops a run of characters of a set, not a suffix.
StripContent(content) == RStrip(RStrip(RStrip(content, {13, 10}), {45}), {13, 10})

\* A decoder that keeps the first file part it meets.
StoreFirstFile(acc, content, fn) ==
    IF acc.filename = None
    THEN [ acc EXCEPT !.file_data = content, !.filename = fn ]
    ELSE acc

\* Lines 369-371: file_data = content; filename = fn, whatever they held.
StoreFile(acc, content, fn) ==
    [ acc EXCEPT !.file_data = content, !.filename = fn ]

\* One pass of the loop body (lines 341-373) over the result so far,
\* acc = [fields, file_data, filename].
ParsePart(acc, part0) ==
    IF part0 \in { << >>, DASHDASH, DASHDASH \o CRLF } THEN acc
    ELSE LET part == IF StartsWith(part0, CRLF) THEN From(part0, 2) ELSE part0
         IN  IF ~Contains(part, CRLFCRLF) THEN acc
             ELSE LET hc      == Partition(part, CRLFCRLF)
                      content == StripContent(hc[2])
                      disp    == FirstDisposition(SplitLines(Decode(hc[1])))
                      nf      == ParseSegs(Split(disp, << 59 >>), << << >>, None >>)
                      name    == nf[1]
                      fn      == nf[2]
                  IN  IF fn # None /\ fn # << >>
                         THEN StoreFile(acc, content, fn)
                      ELSE IF name # << >>
                         THEN [ acc EXCEPT !.fields = DictPut(@, name, Decode(content)) ]
                      ELSE acc

RECURSIVE ParseParts(_, _)
ParseParts(acc, parts) ==
    IF Len(parts) = 0 THEN acc
    ELSE ParseParts(ParsePart(acc, Head(parts)), Tail(parts))

\* Lines 333-335: what the loop starts from.
NoParse == [ fields |-> << >>, file_data |-> None, filename |-> None ]

\* _parse_multipart(body, boundary): [fields, file_data, filename].
parse_multipart(body, boundary) ==
    LET delimiter == DASHDASH \o boundary
        parts     == Split(body, delimiter)
    IN  ParseParts(NoParse, Tail(parts))

(***************************************************************************)
(* Numbers as text and as bytes.                                           *)
(***************************************************************************)
Digits == {48, 49, 50, 51, 52, 53, 54, 55, 56, 57}

\* The value of a run of decimal digits and underscores, left to right.
RECURSIVE DigitsValue(_, _)
DigitsValue(s, acc) ==
    IF Len(s) = 0 THEN acc
    ELSE IF Head(s) = 95 THEN DigitsValue(Tail(s), acc)
    ELSE DigitsValue(Tail(s), acc * 10 + (Head(s) - 48))

\* int(s) on ASCII text: [ok, value]; ok = FALSE stands for ValueError.
\* Surrounding whitespace is dropped, one sign is allowed, and digits may be
\* grouped by single underscores.
ParseInt(s) ==
    LET t    == Strip(s, IntWhitespace)
        sign == Len(t) > 0 /\ t[1] \in {43, 45}
        u    == IF sign THEN Tail(t) ELSE t
        ok   == /\ Len(u) > 0
                /\ \A i \in 1..Len(u) : u[i] \in Digits \cup {95}
                /\ u[1] # 95 /\ u[Len(u)] # 95
                /\ \A i \in 1..(Len(u) - 1) : ~(u[i] = 95 /\ u[i + 1] = 95)
        v    == IF ok THEN DigitsValue(u, 0) ELSE 0
    IN  [ ok |-> ok, value |-> IF sign /\ t[1] = 45 THEN 0 - v ELSE v ]

\* str(n) for an integer n.
RECURSIVE NatStr(_)
NatStr(n) == IF n < 10 THEN << 48 + n >> ELSE NatStr(n \div 10) \o << 48 + (n % 10) >>

DecStr(n) == IF n < 0 THEN << 45 >> \o NatStr(0 - n) ELSE NatStr(n)

(***************************************************************************)
(* Python's unbounded non-negative integers where they can pass 2^31: a    *)
(* number is the sequence of its base-256 digits, least significant first  *)
(* (any number of high zero digits).  int.from_bytes(b, "little") is then  *)
(* b itself.                                                               *)
(***************************************************************************)
\* The digits of a small non-negative integer.
RECURSIVE BigOfInt(_)
BigOfInt(n) == IF n = 0 THEN << >> ELSE << n % 256 >> \o BigOfInt(n \div 256)

\* a * k for a small factor 0 <= k < 65536, adding the carry c.
RECURSIVE BigMulSmall(_, _, _)
BigMulSmall(a, k, c) ==
    IF Len(a) = 0 THEN BigOfInt(c)
    ELSE LET v == Head(a) * k + c
         IN  << v % 256 >> \o BigMulSmall(Tail(a), k, v \div 256)

\* a + b with carry c.
RECURSIVE BigAdd(_, _, _)
BigAdd(a, b, c) ==
    IF Len(a) = 0 /\ Len(b) = 0 THEN BigOfInt(c)
    ELSE LET x == IF Len(a) = 0 THEN 0 ELSE Head(a)
             y == IF Len(b) = 0 THEN 0 ELSE Head(b)
             v == x + y + c
         IN  << v % 256 >> \o BigAdd(IF Len(a) = 0 THEN a ELSE Tail(a),
                                     IF Len(b) = 0 THEN b ELSE Tail(b), v \div 256)

\* a * b
RECURSIVE BigMul(_, _)
BigMul(a, b) ==
    IF Len(b) = 0 THEN << >>
    ELSE BigAdd(BigMulSmall(a, Head(b), 0), << 0 >> \o BigMul(a, Tail(b)), 0)

\* a // k for a small divisor k, from the most significant digit down with
\* the running remainder r: the digits of the quotient.
RECURSIVE BigDivSmall(_, _, _)
BigDivSmall(a, k, r) ==
    IF Len(a) = 0 THEN << >>
    ELSE LET v == r * 256 + a[Len(a)]
         IN  BigDivSmall(SubSeq(a, 1, Len(a) - 1), k, v % k) \o << v \div k >>

\* Whether struct.pack accepts the number for an unsigned field of w bytes
\* ("H": 2, "I": 4); above the range it raises struct.error.
FitsUnsigned(a, w) == \A i \in 1..Len(a) : i > w => a[i] = 0

\* The w little-endian bytes of a number that fits.
ToLE(a, w) == [ i \in 1..w |-> IF i <= Len(a) THEN a[i] ELSE 0 ]

(***************************************************************************)
(* Config (src/app.py 19-28).                                              *)
(***************************************************************************)
CHUNK_SIZE == 65536

\* ".fc"
EXT_FC == << 46, 102, 99 >>

\* ".mp3"
EXT_MP3 == << 46, 109, 112, 51 >>

ALLOWED_EXTS ==
    { << 46, 109, 112, 51 >>,        \* .mp3
      << 46, 111, 103, 103 >>,       \* .ogg
      << 46, 119, 97, 118 >>,        \* .wav
      << 46, 102, 108, 97, 99 >>,    \* .flac
      << 46, 109, 111, 100 >>,       \* .mod
      << 46, 120, 109 >>,            \* .xm
      << 46, 115, 51, 109 >>,        \* .s3m
      << 46, 105, 116 >>,            \* .it
      << 46, 110, 115, 102 >>,       \* .nsf
      << 46, 115, 112, 99 >>,        \* .spc
      << 46, 103, 98, 115 >>,        \* .gbs
      << 46, 118, 103, 109 >>,       \* .vgm
      << 46, 118, 103, 122 >>,       \* .vgz
      EXT_FC }

(***************************************************************************)
(* The range computation of _stream (src/app.py 283-295).                  *)
(***************************************************************************)
\* "bytes="
s_bytes_eq == << 98, 121, 116, 101, 115, 61 >>

\* A header value is truthy when it is present and not empty.
Truthy(h) == h # None /\ h # << >>

\* The off-by-one of treating end as exclusive.
RangeLengthExclusive(start, end) == end - start

\* end - start + 1 (line 294)
RangeLength(start, end) == end - start + 1

\* The status a server gives that answers 206 only to a header it takes as
\* a range.
StreamStatusOfByteRanges(range_header) ==
    IF Truthy(range_header) /\ StartsWith(range_header, s_bytes_eq) THEN 206 ELSE 200

\* 206 if range_header else 200 (line 295)
StreamStatus(range_header) == IF Truthy(range_header) THEN 206 ELSE 200

\* Lines 284-292: [start, end].  start is assigned before end is parsed, so
\* a ValueError raised by the second int() leaves the parsed start in place.
RangeBounds(range_header, file_size) ==
    LET dflt == [ start |-> 0, end |-> file_size - 1 ]
    IN  IF ~(Truthy(range_header) /\ StartsWith(range_header, s_bytes_eq)) THEN dflt
        ELSE LET parts == Split(From(range_header, 6), << 45 >>)
                 p0    == ParseInt(parts[1])
                 p1    == IF Len(parts) > 1 THEN ParseInt(parts[2]) ELSE p0
             IN  IF parts[1] # << >> /\ ~p0.ok THEN dflt
                 ELSE LET start == IF parts[1] # << >> THEN p0.value ELSE 0
                      IN  IF Len(parts) > 1 /\ parts[2] # << >>
                          THEN IF p1.ok THEN [ start |-> start, end |-> p1.value ]
                               ELSE [ start |-> start, end |-> file_size - 1 ]
                          ELSE [ start |-> start, end |-> file_size - 1 ]

(***************************************************************************)
(* The WAV header of _stream_fc_as_wav (src/app.py 222-250).               *)
(***************************************************************************)
s_RIFF == << 82, 73, 70, 70 >>

s_WAVE == << 87, 65, 86, 69 >>

s_fmt == << 102, 109, 116, 32 >>

s_data == << 100, 97, 116, 97 >>

\* The fields packed for a file with these bytes: header = f.read(6),
\* pcm_size = os.path.getsize(fpath) - 6 (negative for a file shorter
\* than its header).
WavFields(data) ==
    LET sample_rate == Slice(data, 0, 4)
        channels    == Slice(data, 4, 6)
        bit_depth   == 16
        pcm_size    == Len(data) - 6
    IN  [ chunk_size  |-> 36 + pcm_size,
          channels    |-> channels,
          sample_rate |-> sample_rate,
          byte_rate   |-> BigDivSmall(BigMulSmall(BigMul(sample_rate, channels),
                                                  bit_depth, 0), 8, 0),
          block_align |-> BigDivSmall(BigMulSmall(channels, bit_depth, 0), 8, 0),
          bit_depth   |-> bit_depth,
          pcm_size    |-> pcm_size ]

\* Whether struct.pack("<4sI4s4sIHHIIHH4sI", ...) accepts the fields; it
\* raises struct.error otherwise.  chunk_size and pcm_size are bounded by
\* the size of a file of the model and can only fail by being negative.
WavPackable(w) ==
    /\ w.chunk_size >= 0
    /\ FitsUnsigned(w.channels, 2)
    /\ FitsUnsigned(w.sample_rate, 4)
    /\ FitsUnsigned(w.byte_rate, 4)
    /\ FitsUnsigned(w.block_align, 2)
    /\ w.pcm_size >= 0

\* The 44 bytes struct.pack returns.
WavHeader(w) ==
    s_RIFF \o ToLE(BigOfInt(w.chunk_size), 4) \o s_WAVE \o s_fmt
      \o ToLE(BigOfInt(16), 4) \o ToLE(BigOfInt(1), 2) \o ToLE(w.channels, 2)
      \o ToLE(w.sample_rate, 4) \o ToLE(w.byte_rate, 4) \o ToLE(w.block_align, 2)
      \o ToLE(BigOfInt(w.bit_depth), 2) \o s_data \o ToLE(BigOfInt(w.pcm_size), 4)

(***************************************************************************)
(* The request checks of _api_upload (src/app.py 157-189).                 *)
(***************************************************************************)
\* "multipart/form-data"
s_multipart_form_data ==
    << 109, 117, 108, 116, 105, 112, 97, 114, 116, 47, 102, 111, 114, 109,
       45, 100, 97, 116, 97 >>

\* "boundary="
s_boundary_eq == << 98, 111, 117, 110, 100, 97, 114, 121, 61 >>

s_title == << 116, 105, 116, 108, 101 >>

s_artist == << 97, 114, 116, 105, 115, 116 >>

s_comment == << 99, 111, 109, 109, 101, 110, 116 >>

s_Unknown_Title == << 85, 110, 107, 110, 111, 119, 110, 32, 84, 105, 116, 108, 101 >>

s_Unknown_Artist ==
    << 85, 110, 107, 110, 111, 119, 110, 32, 65, 114, 116, 105, 115, 116 >>

\* Lines 163-168: the boundary of the first ";"-separated piece that starts
\* with "boundary=", or None.
RECURSIVE FindBoundary(_)
FindBoundary(pieces) ==
    IF Len(pieces) = 0 THEN None
    ELSE LET part == Strip(Head(pieces), StrWhitespace)
         IN  IF StartsWith(part, s_boundary_eq) THEN Strip(From(part, 9), {34})
             ELSE FindBoundary(Tail(pieces))

\* Path(filename).suffix.lower() for a name without directory separators:
\* the text from the last "." on, unless that dot opens or ends the name.
Suffix(filename) ==
    LET i == RFind(filename, << 46 >>)
    IN  IF 0 < i /\ i < Len(filename) - 1 THEN Lower(From(filename, i)) ELSE << >>

\* x or default
OrDefault(x, default) == IF x = << >> THEN default ELSE x

(***************************************************************************)
(* State.                                                                  *)
(*   db_file    songs.json: missing, valid JSON (its list) or corrupt      *)
(*   uploads    the files of uploads/: name -> bytes, a name being         *)
(*              <<id, ext>> for f"{song_id}{ext}"                          *)
(*   db_lock    the thread holding db_lock, or 0                           *)
(*   next_uuid  the next value uuid.uuid4() returns (never repeated)       *)
(*   pc, req, loc, cat, resp   per thread: position, request, the locals   *)
(*              of the handler, the frame of a catalog call, the response  *)
(*              written so far                                             *)
(*   before     per thread: db_file and uploads as the request arrived     *)
(*   log        the finished exchanges, in the order they finished         *)
(*   db0        songs.json at start                                        *)
(*   started    the number of requests (or calls) begun                    *)
(*   pin, pout  the argument and result of a direct _parse_multipart call  *)
(***************************************************************************)
VARIABLES db_file, uploads, db_lock, next_uuid, pc, req, loc, cat, resp,
          before, log, db0, started, pin, pout

vars == << db_file, uploads, db_lock, next_uuid, pc, req, loc, cat, resp,
           before, log, db0, started, pin, pout >>

Threads == 1..NThreads

\* The thread of the single-threaded HTTPServer (line 388).
Main == Min(Threads)

NoReq == [ kind |-> "none" ]

NoLoc == [ none |-> TRUE ]

NoCall == [ op |-> "none" ]

NoJson == [ none |-> TRUE ]

NoResp ==
    [ status |-> 0, content_length |-> None, content_range |-> None, body |-> << >>, json |-> NoJson, exc |-> "",
      write_failed |-> FALSE ]

NoStore == [ db |-> [ state |-> "none", songs |-> << >> ], files |-> << >> ]

(***************************************************************************)
(* The catalog store (src/app.py 33-63).                                   *)
(***************************************************************************)
\* The record _api_upload builds (lines 195-204), without its "uploaded"
\* wall-clock stamp, which no operation reads.
SongMeta(id, title, artist, comment, ext, size) ==
    [ id |-> id, title |-> title, artist |-> artist, comment |-> comment,
      filename |-> << id, ext >>, ext |-> ext, size |-> size ]

MissingDb == [ state |-> "missing", songs |-> << >> ]

\* A reader that takes the records of a document without parsing it.
load_db_trusting(f) == f.songs

\* load_db: the parsed list, or [] for a missing or unparseable document.
\* json.loads(json.dumps(x)) is x for lists of records of str and int.
load_db(f) == IF f.state = "json" THEN f.songs ELSE << >>

\* save_db: the whole document is rewritten.
save_db(songs) == [ state |-> "json", songs |-> songs ]

\* [s for s in songs if s["id"] != song_id]
Without(songs, song_id) ==
    LET Keep(s) == s.id # song_id IN SelectSeq(songs, Keep)

\* The lost-update bug: entering the critical section without waiting.
db_lock_ignored == TRUE

\* "with db_lock:" can be entered.
db_lock_free == db_lock = 0

\* The index of next((s for s in songs if s["id"] == song_id), None), 0 for
\* None.
FindSong(songs, song_id) ==
    LET idx == { i \in 1..Len(songs) : songs[i].id = song_id }
    IN  IF idx = {} THEN 0 ELSE Min(idx)

\* A call of add_song or delete_song_by_id from position pc; it returns to
\* retpc.
CallFrame(op, arg, retpc) ==
    [ op |-> op, arg |-> arg, songs |-> << >>, ret |-> FALSE, retpc |-> retpc ]

\* add_song, line 51: with db_lock
AddSongAcquire(t) ==
    /\ pc[t] = "add_song:with"
    /\ db_lock_free
    /\ db_lock' = t
    /\ pc' = [ pc EXCEPT ![t] = "add_song:load" ]
    /\ UNCHANGED << db_file, uploads, next_uuid, req, loc, cat, resp, before,
                    log, db0, started, pin, pout >>

\* add_song, line 52: songs = load_db()
AddSongLoad(t) ==
    /\ pc[t] = "add_song:load"
    /\ cat' = [ cat EXCEPT ![t].songs = load_db(db_file) ]
    /\ pc' = [ pc EXCEPT ![t] = "add_song:save" ]
    /\ UNCHANGED << db_file, uploads, db_lock, next_uuid, req, loc, resp,
                    before, log, db0, started, pin, pout >>

\* add_song, lines 53-54: append, save_db, and the lock is released
AddSongSave(t) ==
    /\ pc[t] = "add_song:save"
    /\ db_file' = save_db(Append(cat[t].songs, cat[t].arg))
    /\ db_lock' = 0
    /\ pc' = [ pc EXCEPT ![t] = cat[t].retpc ]
    /\ UNCHANGED << uploads, next_uuid, req, loc, cat, resp, before, log,
                    db0, started, pin, pout >>

\* delete_song_by_id, line 57: with db_lock
DeleteAcquire(t) ==
    /\ pc[t] = "delete_song_by_id:with"
    /\ db_lock_free
    /\ db_lock' = t
    /\ pc' = [ pc EXCEPT ![t] = "delete_song_by_id:load" ]
    /\ UNCHANGED << db_file, uploads, next_uuid, req, loc, cat, resp, before,
                    log, db0, started, pin, pout >>

\* delete_song_by_id, line 58: songs = load_db()
DeleteLoad(t) ==
    /\ pc[t] = "delete_song_by_id:load"
    /\ cat' = [ cat EXCEPT ![t].songs = load_db(db_file) ]
    /\ pc' = [ pc EXCEPT ![t] = "delete_song_by_id:save" ]
    /\ UNCHANGED << db_file, uploads, db_lock, next_uuid, req, loc, resp,
                    before, log, db0, started, pin, pout >>

\* What delete_song_by_id writes (lines 59-62): nothing when no record
\* matched.
DeleteWithoutSaving(f, songs, song_id) == f

DeleteWrite(f, songs, song_id) ==
    IF Len(Without(songs, song_id)) = Len(songs) THEN f
    ELSE save_db(Without(songs, song_id))

\* delete_song_by_id, lines 59-63: filter, return False when nothing went,
\* else save_db and return True; the lock is released either way
DeleteSave(t) ==
    /\ pc[t] = "delete_song_by_id:save"
    /\ db_file' = DeleteWrite(db_file, cat[t].songs, cat[t].arg)
    /\ cat' = [ cat EXCEPT ![t].ret =
                  Len(Without(cat[t].songs, cat[t].arg)) # Len(cat[t].songs) ]
    /\ db_lock' = 0
    /\ pc' = [ pc EXCEPT ![t] = cat[t].retpc ]
    /\ UNCHANGED << uploads, next_uuid, req, loc, resp, before, log, db0, started, pin, pout >>

(***************************************************************************)
(* Requests and responses.                                                 *)
(***************************************************************************)
\* send_json(data, status), lines 73-80
send_json(data, status) == [ NoResp EXCEPT !.status = status, !.json = data ]

\* send_error_json(msg, status), lines 82-83
send_error_json(msg, status) == send_json([ error |-> msg ], status)

\* The messages of the error responses, as text.
\* "Expected multipart/form-data"
s_Expected_multipart ==
    << 69, 120, 112, 101, 99, 116, 101, 100, 32, 109, 117, 108, 116,
       105, 112, 97, 114, 116, 47, 102, 111, 114, 109, 45, 100, 97, 116,
       97 >>

\* "Missing boundary"
s_Missing_boundary ==
    << 77, 105, 115, 115, 105, 110, 103, 32, 98, 111, 117, 110, 100, 97,
       114, 121 >>

\* "No file uploaded"
s_No_file_uploaded ==
    << 78, 111, 32, 102, 105, 108, 101, 32, 117, 112, 108, 111, 97, 100,
       101, 100 >>

\* "Unsupported format: "
s_Unsupported_format ==
    << 85, 110, 115, 117, 112, 112, 111, 114, 116, 101, 100, 32, 102,
       111, 114, 109, 97, 116, 58, 32 >>

\* "No songs available"
s_No_songs_available ==
    << 78, 111, 32, 115, 111, 110, 103, 115, 32, 97, 118, 97, 105, 108,
       97, 98, 108, 101 >>

\* "Not found"
s_Not_found ==
    << 78, 111, 116, 32, 102, 111, 117, 110, 100 >>

\* "File missing"
s_File_missing ==
    << 70, 105, 108, 101, 32, 109, 105, 115, 115, 105, 110, 103 >>

\* A request reaches an idle handler thread.
Start(t, r, at) ==
    /\ pc[t] = "idle"
    /\ pc' = [ pc EXCEPT ![t] = at ]
    /\ req' = [ req EXCEPT ![t] = r ]
    /\ before' = [ before EXCEPT ![t] = [ db |-> db_file, files |-> uploads ] ]
    /\ started' = started + 1

\* The handler returns (or an exception leaves it) with response r written;
\* db2 and files2 are songs.json and uploads/ as it does.
Finish(t, r, db2, files2) ==
    /\ pc' = [ pc EXCEPT ![t] = "idle" ]
    /\ log' = Append(log, [ thread |-> t, req |-> req[t], resp |-> r,
                            before |-> before[t],
                            after |-> [ db |-> db2, files |-> files2 ] ])
    /\ req' = [ req EXCEPT ![t] = NoReq ]
    /\ loc' = [ loc EXCEPT ![t] = NoLoc ]
    /\ cat' = [ cat EXCEPT ![t] = NoCall ]
    /\ resp' = [ resp EXCEPT ![t] = NoResp ]
    /\ before' = [ before EXCEPT ![t] = NoStore ]

(***************************************************************************)
(* Direct calls of the catalog functions by concurrent threads.            *)
(***************************************************************************)
CallAddSong(t, meta) ==
    /\ started < MaxCalls
    /\ Start(t, [ kind |-> "add_song", meta |-> meta ], "add_song:with")
    /\ cat' = [ cat EXCEPT ![t] = CallFrame("add_song", meta, "return") ]
    /\ UNCHANGED << db_file, uploads, db_lock, next_uuid, loc, resp, log,
                    db0, pin, pout >>

CallDeleteSongById(t, song_id) ==
    /\ started < MaxCalls
    /\ Start(t, [ kind |-> "delete_song_by_id", id |-> song_id ],
             "delete_song_by_id:with")
    /\ cat' = [ cat EXCEPT ![t] = CallFrame("delete_song_by_id", song_id, "return") ]
    /\ UNCHANGED << db_file, uploads, db_lock, next_uuid, loc, resp, log,
                    db0, pin, pout >>

\* get_songs() called (line 46).
CallGetSongs(t) ==
    /\ started < MaxCalls
    /\ Start(t, [ kind |-> "get_songs" ], "get_songs:with")
    /\ UNCHANGED << db_file, uploads, db_lock, next_uuid, loc, cat, resp, log,
                    db0, pin, pout >>

\* get_songs, lines 47-48: with db_lock: return load_db().  The value
\* returned is logged as the json of the exchange.
GetSongs(t) ==
    /\ pc[t] = "get_songs:with"
    /\ db_lock_free
    /\ Finish(t, send_json([ songs |-> load_db(db_file) ], 0), db_file, uploads)
    /\ UNCHANGED << db_file, uploads, db_lock, next_uuid, db0, started, pin,
                    pout >>

Return(t) ==
    /\ pc[t] = "return"
    /\ Finish(t, send_json([ ret |-> cat[t].ret ], 0), db_file, uploads)
    /\ UNCHANGED << db_file, uploads, db_lock, next_uuid, db0,
                    started, pin, pout >>

(***************************************************************************)
(* DELETE /api/songs/<id>: _api_delete (src/app.py 208-219).               *)
(***************************************************************************)
ReqDelete(t, song_id) ==
    /\ started < MaxReqs
    /\ Start(t, [ kind |-> "delete", id |-> song_id ], "api_delete")
    /\ UNCHANGED << db_file, uploads, db_lock, next_uuid, loc, cat, resp, log,
                    db0, pin, pout >>

\* Lines 209-214: the lookup in get_songs(), 404 for no target, else the
\* call of delete_song_by_id.
ApiDelete(t) ==
    /\ pc[t] = "api_delete"
    /\ db_lock_free
    /\ LET songs == load_db(db_file)
           k     == FindSong(songs, req[t].id)
       IN  IF k = 0
           THEN /\ Finish(t, send_error_json(s_Not_found, 404), db_file, uploads)
                /\ UNCHANGED << db_file, uploads, db_lock, next_uuid, db0,
                                started, pin, pout >>
           ELSE /\ loc' = [ loc EXCEPT ![t] = [ target |-> songs[k] ] ]
                /\ cat' = [ cat EXCEPT ![t] =
                             CallFrame("delete_song_by_id", req[t].id,
                                       "api_delete:unlink") ]
                /\ pc' = [ pc EXCEPT ![t] = "delete_song_by_id:with" ]
                /\ UNCHANGED << db_file, uploads, db_lock, next_uuid, req, resp,
                                before, log, db0, started, pin, pout >>

\* The bug of leaving the backing file behind.
UnlinkNothing(files, name) == files

\* Path.unlink(missing_ok=True): the file is gone afterwards, and a file
\* already missing is no error.
Unlink(files, name) == [ n \in (DOMAIN files) \ {name} |-> files[n] ]

\* Lines 215-219: unlink the backing file, answer 200.
ApiDeleteUnlink(t) ==
    /\ pc[t] = "api_delete:unlink"
    /\ uploads' = Unlink(uploads, loc[t].target.filename)
    /\ Finish(t, send_json([ ok |-> TRUE ], 200), db_file, uploads')
    /\ UNCHANGED << db_file, db_lock, next_uuid, db0, started, pin, pout >>

(***************************************************************************)
(* POST /api/upload: _api_upload (src/app.py 156-206).                     *)
(***************************************************************************)
\* "XX", the boundary the clients of the model use.
s_XX == << 88, 88 >>

\* "multipart/form-data; boundary=XX"
ct_multipart ==
    << 109, 117, 108, 116, 105, 112, 97, 114, 116, 47, 102, 111, 114, 109,
       45, 100, 97, 116, 97, 59, 32, 98, 111, 117, 110, 100, 97, 114, 121,
       61, 88, 88 >>

\* 'Content-Disposition: form-data; name="'
cd_name ==
    << 67, 111, 110, 116, 101, 110, 116, 45, 68, 105, 115, 112, 111, 115,
       105, 116, 105, 111, 110, 58, 32, 102, 111, 114, 109, 45, 100, 97,
       116, 97, 59, 32, 110, 97, 109, 101, 61, 34 >>

\* '"; filename="'
cd_filename == << 34, 59, 32, 102, 105, 108, 101, 110, 97, 109, 101, 61, 34 >>

\* "file"
s_file == << 102, 105, 108, 101 >>

\* One text part as a client encodes it: the delimiter line, the
\* disposition header, a blank line, the value and CRLF.
FieldPart(name, value) ==
    DASHDASH \o s_XX \o CRLF \o cd_name \o name \o << 34 >> \o CRLFCRLF
      \o value \o CRLF

\* One file part as a client encodes it.
FilePart(name, filename, payload) ==
    DASHDASH \o s_XX \o CRLF \o cd_name \o name \o cd_filename \o filename
      \o << 34 >> \o CRLFCRLF \o payload \o CRLF

\* The closing delimiter line.
ClosePart == DASHDASH \o s_XX \o DASHDASH \o CRLF

\* The body a client sends for a form: its three text fields, its file part
\* when it has one, and the closing delimiter.
MultipartBody(form) ==
    FieldPart(s_title, form.title) \o FieldPart(s_artist, form.artist)
      \o FieldPart(s_comment, form.comment)
      \o (IF form.has_file THEN FilePart(s_file, form.filename, form.payload)
          ELSE << >>)
      \o ClosePart

ReqUpload(t, form) ==
    /\ started < MaxReqs
    /\ Start(t, [ kind |-> "upload", content_type |-> form.content_type,
                  body |-> MultipartBody(form), form |-> form ], "api_upload")
    /\ UNCHANGED << db_file, uploads, db_lock, next_uuid, loc, cat, resp, log,
                    db0, pin, pout >>

\* not x, for a bytes or str value or None
Falsy(x) == x = None \/ x = << >>

\* The error _api_upload answers 400 with, the empty text when the request
\* passes every check (lines 157-189, in the order of the code); the last
\* is f"Unsupported format: {ext}".
UploadError(content_type, parsed, boundary) ==
    IF ~Contains(content_type, s_multipart_form_data)
       THEN s_Expected_multipart
    ELSE IF Falsy(boundary) THEN s_Missing_boundary
    ELSE IF Falsy(parsed.file_data) \/ Falsy(parsed.filename)
       THEN s_No_file_uploaded
    ELSE IF Suffix(parsed.filename) \notin ALLOWED_EXTS
       THEN s_Unsupported_format \o Suffix(parsed.filename)
    ELSE << >>

\* fields.get(name, "").strip()
FieldValue(fields, name) == Strip(DictGet(fields, name, << >>), StrWhitespace)

\* Lines 157-189: content type, boundary, the parse, the field defaults,
\* the file and extension checks.
ApiUpload(t) ==
    /\ pc[t] = "api_upload"
    /\ LET ct       == req[t].content_type
           boundary == FindBoundary(Split(ct, << 59 >>))
           parsed   == IF Falsy(boundary) THEN NoParse
                       ELSE parse_multipart(req[t].body, boundary)
           err      == UploadError(ct, parsed, boundary)
       IN  IF err # << >>
           THEN /\ Finish(t, send_error_json(err, 400), db_file, uploads)
                /\ UNCHANGED << db_file, uploads, db_lock, next_uuid, db0,
                                started, pin, pout >>
           ELSE /\ loc' = [ loc EXCEPT ![t] =
                     [ title     |-> OrDefault(FieldValue(parsed.fields, s_title),
                                               s_Unknown_Title),
                       artist    |-> OrDefault(FieldValue(parsed.fields, s_artist),
                                               s_Unknown_Artist),
                       comment   |-> FieldValue(parsed.fields, s_comment),
                       file_data |-> parsed.file_data,
                       ext       |-> Suffix(parsed.filename) ] ]
                /\ pc' = [ pc EXCEPT ![t] = "api_upload:write" ]
                /\ UNCHANGED << db_file, uploads, db_lock, next_uuid, req, cat,
                                resp, before, log, db0, started, pin, pout >>

\* An upload that appends its record without writing the file.
WriteNothing(files, name, data) == files

\* Line 193: (UPLOAD_DIR / save_name).write_bytes(file_data)
WriteBytes(files, name, data) == DictPut(files, name, data)

\* Lines 191-205: a fresh id, the file written under uploads/, the record
\* built, and the call of add_song.
ApiUploadWrite(t) ==
    /\ pc[t] = "api_upload:write"
    /\ LET song_id == next_uuid
           l       == loc[t]
           meta    == SongMeta(song_id, l.title, l.artist, l.comment, l.ext,
                               Len(l.file_data))
       IN  /\ next_uuid' = next_uuid + 1
           /\ uploads' = WriteBytes(uploads, << song_id, l.ext >>, l.file_data)
           /\ loc' = [ loc EXCEPT ![t] = [ meta |-> meta ] ]
           /\ cat' = [ cat EXCEPT ![t] =
                        CallFrame("add_song", meta, "api_upload:send") ]
           /\ pc' = [ pc EXCEPT ![t] = "add_song:with" ]
    /\ UNCHANGED << db_file, db_lock, req, resp, before, log, db0, started,
                    pin, pout >>

\* Line 206: 201 with the record.
ApiUploadSend(t) ==
    /\ pc[t] = "api_upload:send"
    /\ Finish(t, send_json([ ok |-> TRUE, song |-> loc[t].meta ], 201),
              db_file, uploads)
    /\ UNCHANGED << db_file, uploads, db_lock, next_uuid, db0, started, pin,
                    pout >>

(***************************************************************************)
(* GET /api/songs: _api_songs (src/app.py 138-145).                        *)
(***************************************************************************)
ReqSongs(t, q) ==
    /\ started < MaxReqs
    /\ Start(t, [ kind |-> "songs", q |-> q ], "api_songs")
    /\ UNCHANGED << db_file, uploads, db_lock, next_uuid, loc, cat, resp, log,
                    db0, pin, pout >>

\* A search that compares without lowering.
SearchSongsExact(songs, q0) ==
    LET Hit(s) == Contains(s.title, q0) \/ Contains(s.artist, q0)
    IN  IF q0 # << >> THEN SelectSeq(songs, Hit) ELSE songs

\* Lines 141-144: the records whose title or artist contains q, compared in
\* lower case; all of them for an empty q.
SearchSongs(songs, q0) ==
    LET q == Lower(q0)
        Hit(s) == Contains(Lower(s.title), q) \/ Contains(Lower(s.artist), q)
    IN  IF q # << >> THEN SelectSeq(songs, Hit) ELSE songs

ApiSongs(t) ==
    /\ pc[t] = "api_songs"
    /\ db_lock_free
    /\ Finish(t, send_json([ songs |-> SearchSongs(load_db(db_file), req[t].q) ], 200),
              db_file, uploads)
    /\ UNCHANGED << db_file, uploads, db_lock, next_uuid, db0, started, pin,
                    pout >>

(***************************************************************************)
(* GET /api/random: _api_random (src/app.py 147-154).                      *)
(***************************************************************************)
\* qs.get("exclude", [""])[0] of a request without exclude: "", which is
\* the id of no record.
NoExclude == 0

ReqRandom(t, exclude) ==
    /\ started < MaxReqs
    /\ Start(t, [ kind |-> "random", exclude |-> exclude ], "api_random")
    /\ UNCHANGED << db_file, uploads, db_lock, next_uuid, loc, cat, resp, log,
                    db0, pin, pout >>

\* A pool that forgets the exclusion.
RandomPoolAll(songs, exclude) == songs

\* Line 150: [s for s in songs if s["id"] != exclude] or songs
RandomPool(songs, exclude) ==
    IF Without(songs, exclude) # << >> THEN Without(songs, exclude) ELSE songs

\* Lines 148-154: 404 for an empty pool, else random.choice(pool), any of
\* its records.
ApiRandom(t) ==
    /\ pc[t] = "api_random"
    /\ db_lock_free
    /\ LET pool == RandomPool(load_db(db_file), req[t].exclude)
       IN  IF pool = << >>
           THEN Finish(t, send_error_json(s_No_songs_available, 404),
                       db_file, uploads)
           ELSE \E k \in 1..Len(pool) :
                    Finish(t, send_json(pool[k], 200), db_file, uploads)
    /\ UNCHANGED << db_file, uploads, db_lock, next_uuid, db0, started, pin,
                    pout >>

(***************************************************************************)
(* GET /stream/<id>: _stream (src/app.py 263-317) and _stream_fc_as_wav    *)
(* (src/app.py 220-262).  range is the value of the Range header, None     *)
(* when the request has none.  A wfile.write either sends its bytes or     *)
(* raises BrokenPipeError (the client is gone); an opened file keeps its   *)
(* bytes when its name is unlinked.  Content-Type is not modelled.         *)
(***************************************************************************)
ReqStream(t, song_id, range) ==
    /\ started < MaxReqs
    /\ Start(t, [ kind |-> "stream", id |-> song_id, range |-> range ], "stream")
    /\ UNCHANGED << db_file, uploads, db_lock, next_uuid, loc, cat, resp, log,
                    db0, pin, pout >>

\* An exception leaves the handler: nothing more is written.
Raise(t, exc, failed) ==
    Finish(t, [ resp[t] EXCEPT !.exc = exc, !.write_failed = failed ],
           db_file, uploads)

\* Lines 265-270: the lookup in get_songs(), 404 "Not found" for no target.
StreamLookup(t) ==
    /\ pc[t] = "stream"
    /\ db_lock_free
    /\ LET songs == load_db(db_file)
           k     == FindSong(songs, req[t].id)
       IN  IF k = 0
           THEN /\ Finish(t, send_error_json(s_Not_found, 404), db_file, uploads)
                /\ UNCHANGED << db_file, uploads, db_lock, next_uuid, db0,
                                started, pin, pout >>
           ELSE /\ loc' = [ loc EXCEPT ![t] = [ target |-> songs[k] ] ]
                /\ pc' = [ pc EXCEPT ![t] = "stream:exists" ]
                /\ UNCHANGED << db_file, uploads, db_lock, next_uuid, req, cat,
                                resp, before, log, db0, started, pin, pout >>

\* Lines 272-278: 404 "File missing" when the file does not exist; the .fc
\* branch.
StreamExists(t) ==
    /\ pc[t] = "stream:exists"
    /\ IF loc[t].target.filename \notin DOMAIN uploads
       THEN /\ Finish(t, send_error_json(s_File_missing, 404), db_file, uploads)
            /\ UNCHANGED << db_file, uploads, db_lock, next_uuid, db0, started,
                            pin, pout >>
       ELSE /\ pc' = [ pc EXCEPT ![t] =
                        IF loc[t].target.ext = EXT_FC THEN "fc:open"
                        ELSE "stream:stat" ]
            /\ UNCHANGED << db_file, uploads, db_lock, next_uuid, req, loc, cat,
                            resp, before, log, db0, started, pin, pout >>

\* "bytes "
s_bytes_sp == << 98, 121, 116, 101, 115, 32 >>

\* f"bytes {start}-{end}/{file_size}" (line 300)
ContentRange(start, end, file_size) ==
    s_bytes_sp \o DecStr(start) \o << 45 >> \o DecStr(end) \o << 47 >>
      \o DecStr(file_size)

\* Lines 279-304: stat (FileNotFoundError when the file has gone), the
\* range, the status and the headers.
StreamHeaders(t) ==
    /\ pc[t] = "stream:stat"
    /\ IF loc[t].target.filename \notin DOMAIN uploads
       THEN /\ Raise(t, "FileNotFoundError", FALSE)
            /\ UNCHANGED << db_file, uploads, db_lock, next_uuid, db0, started,
                            pin, pout >>
       ELSE LET file_size == Len(uploads[loc[t].target.filename])
                se        == RangeBounds(req[t].range, file_size)
                length    == RangeLength(se.start, se.end)
            IN  /\ resp' = [ resp EXCEPT ![t] =
                      [ NoResp EXCEPT
                          !.status = StreamStatus(req[t].range),
                          !.content_length = DecStr(length),
                          !.content_range =
                              ContentRange(se.start, se.end, file_size) ] ]
                /\ loc' = [ loc EXCEPT ![t] =
                      [ target |-> loc[t].target, start |-> se.start,
                        length |-> length ] ]
                /\ pc' = [ pc EXCEPT ![t] = "stream:open" ]
                /\ UNCHANGED << db_file, uploads, db_lock, next_uuid, req, cat,
                                before, log, db0, started, pin, pout >>

\* Lines 306-308: open (FileNotFoundError when the file has gone), seek to
\* start, remaining = length.
StreamOpen(t) ==
    /\ pc[t] = "stream:open"
    /\ IF loc[t].target.filename \notin DOMAIN uploads
       THEN /\ Raise(t, "FileNotFoundError", FALSE)
            /\ UNCHANGED << db_file, uploads, db_lock, next_uuid, db0, started,
                            pin, pout >>
       ELSE /\ loc' = [ loc EXCEPT ![t] =
                  [ target |-> loc[t].target,
                    f |-> uploads[loc[t].target.filename],
                    pos |-> loc[t].start, remaining |-> loc[t].length ] ]
            /\ pc' = [ pc EXCEPT ![t] = "stream:loop" ]
            /\ UNCHANGED << db_file, uploads, db_lock, next_uuid, req, cat, resp,
                            before, log, db0, started, pin, pout >>

\* A read that ignores the size asked for and returns the rest of the file.
FileReadAll(f, pos, n) == IF pos >= Len(f) THEN << >> ELSE Slice(f, pos, Len(f))

\* f.read(n) at position pos: at most n bytes, fewer at the end of the
\* file, none at or past it.
FileRead(f, pos, n) == IF pos >= Len(f) THEN << >> ELSE Slice(f, pos, pos + n)

\* Lines 309-317, one iteration of the loop: the test of remaining, the
\* read of min(CHUNK_SIZE, remaining) bytes, the break at end of file, the
\* write (sent is whether the client took it) with its break on
\* BrokenPipeError, and the decrement.
StreamLoop(t, sent) ==
    /\ pc[t] = "stream:loop"
    /\ LET l     == loc[t]
           chunk == FileRead(l.f, l.pos, Min({ CHUNK_SIZE, l.remaining }))
       IN  IF l.remaining > 0 /\ chunk # << >> /\ sent
           THEN /\ resp' = [ resp EXCEPT ![t].body = @ \o chunk ]
                /\ loc' = [ loc EXCEPT ![t].pos = @ + Len(chunk),
                                       ![t].remaining = @ - Len(chunk) ]
                /\ UNCHANGED << db_file, uploads, db_lock, next_uuid, pc, req,
                                cat, before, log, db0, started, pin, pout >>
           ELSE /\ Finish(t, [ resp[t] EXCEPT !.write_failed =
                                 l.remaining > 0 /\ chunk # << >> /\ ~sent ],
                          db_file, uploads)
                /\ UNCHANGED << db_file, uploads, db_lock, next_uuid, db0,
                                started, pin, pout >>

\* Lines 221-222: open (FileNotFoundError when the file has gone) and
\* header = f.read(6).
FcOpen(t) ==
    /\ pc[t] = "fc:open"
    /\ IF loc[t].target.filename \notin DOMAIN uploads
       THEN /\ Raise(t, "FileNotFoundError", FALSE)
            /\ UNCHANGED << db_file, uploads, db_lock, next_uuid, db0, started,
                            pin, pout >>
       ELSE /\ loc' = [ loc EXCEPT ![t] =
                  [ target |-> loc[t].target,
                    f |-> uploads[loc[t].target.filename],
                    pos |-> Min({ 6, Len(uploads[loc[t].target.filename]) }) ] ]
            /\ pc' = [ pc EXCEPT ![t] = "fc:pack" ]
            /\ UNCHANGED << db_file, uploads, db_lock, next_uuid, req, cat, resp,
                            before, log, db0, started, pin, pout >>

\* Lines 224-254: os.path.getsize (FileNotFoundError when the name has
\* gone), the fields, struct.pack (struct.error when a field does not fit),
\* then status 200 and the headers.
FcPack(t) ==
    /\ pc[t] = "fc:pack"
    /\ IF loc[t].target.filename \notin DOMAIN uploads
       THEN /\ Raise(t, "FileNotFoundError", FALSE)
            /\ UNCHANGED << db_file, uploads, db_lock, next_uuid, db0, started,
                            pin, pout >>
       ELSE IF ~WavPackable(WavFields(uploads[loc[t].target.filename]))
       THEN /\ Raise(t, "struct.error", FALSE)
            /\ UNCHANGED << db_file, uploads, db_lock, next_uuid, db0, started,
                            pin, pout >>
       ELSE /\ resp' = [ resp EXCEPT ![t] = [ NoResp EXCEPT !.status = 200 ] ]
            /\ loc' = [ loc EXCEPT ![t] =
                  [ target |-> loc[t].target, f |-> loc[t].f, pos |-> loc[t].pos,
                    wav_header |->
                        WavHeader(WavFields(uploads[loc[t].target.filename])) ] ]
            /\ pc' = [ pc EXCEPT ![t] = "fc:header" ]
            /\ UNCHANGED << db_file, uploads, db_lock, next_uuid, req, cat,
                            before, log, db0, started, pin, pout >>

\* Line 256: self.wfile.write(wav_header), outside any try.
FcWriteHeader(t, sent) ==
    /\ pc[t] = "fc:header"
    /\ IF sent
       THEN /\ resp' = [ resp EXCEPT ![t].body = loc[t].wav_header ]
            /\ pc' = [ pc EXCEPT ![t] = "fc:loop" ]
            /\ UNCHANGED << db_file, uploads, db_lock, next_uuid, req, loc, cat,
                            before, log, db0, started, pin, pout >>
       ELSE /\ Raise(t, "BrokenPipeError", TRUE)
            /\ UNCHANGED << db_file, uploads, db_lock, next_uuid, db0, started,
                            pin, pout >>

\* Lines 258-262, one iteration: read CHUNK_SIZE bytes, break at end of
\* file, write outside any try.
FcLoop(t, sent) ==
    /\ pc[t] = "fc:loop"
    /\ LET l     == loc[t]
           chunk == FileRead(l.f, l.pos, CHUNK_SIZE)
       IN  IF chunk = << >>
           THEN /\ Finish(t, resp[t], db_file, uploads)
                /\ UNCHANGED << db_file, uploads, db_lock, next_uuid, db0,
                                started, pin, pout >>
           ELSE IF sent
           THEN /\ resp' = [ resp EXCEPT ![t].body = @ \o chunk ]
                /\ loc' = [ loc EXCEPT ![t].pos = @ + Len(chunk) ]
                /\ UNCHANGED << db_file, uploads, db_lock, next_uuid, pc, req,
                                cat, before, log, db0, started, pin, pout >>
           ELSE /\ Raise(t, "BrokenPipeError", TRUE)
                /\ UNCHANGED << db_file, uploads, db_lock, next_uuid, db0,
                                started, pin, pout >>

(***************************************************************************)
(* Records and stores the specifications start from.                       *)
(***************************************************************************)
\* "T"
s_T == << 84 >>

\* "A"
s_A == << 65 >>

\* A record as add_song's callers pass it.
MetaOf(id) == SongMeta(id, s_T, s_A, << >>, EXT_MP3, id)

\* The ids of the records the concurrent callers add and delete.
CallIds == {1, 2}

\* songs.json with text that json.loads rejects (cut short, or not JSON at
\* all); songs is what the text held before the damage.
CorruptDb == [ state |-> "corrupt", songs |-> << MetaOf(2) >> ]

InitThreads ==
    /\ db_lock = 0
    /\ pc = [ t \in Threads |-> "idle" ]
    /\ req = [ t \in Threads |-> NoReq ]
    /\ loc = [ t \in Threads |-> NoLoc ]
    /\ cat = [ t \in Threads |-> NoCall ]
    /\ resp = [ t \in Threads |-> NoResp ]
    /\ before = [ t \in Threads |-> NoStore ]
    /\ log = << >>
    /\ started = 0

InitNoParse ==
    /\ pin = << >>
    /\ pout = [ done |-> FALSE, result |-> NoParse ]

(***************************************************************************)
(* SpecCatalog: threads calling get_songs, add_song and delete_song_by_id  *)
(* concurrently, on a missing, an unparseable or a well-formed songs.json. *)
(***************************************************************************)
InitCatalog ==
    /\ db_file \in { MissingDb, CorruptDb, save_db(<< MetaOf(1) >>) }
    /\ db0 = db_file
    /\ uploads = << >>
    /\ next_uuid = 1
    /\ InitThreads
    /\ InitNoParse

NextCatalog ==
    \E t \in Threads :
        \/ \E i \in CallIds : CallAddSong(t, MetaOf(i))
        \/ \E i \in CallIds : CallDeleteSongById(t, i)
        \/ CallGetSongs(t)
        \/ GetSongs(t)
        \/ AddSongAcquire(t)
        \/ AddSongLoad(t)
        \/ AddSongSave(t)
        \/ DeleteAcquire(t)
        \/ DeleteLoad(t)
        \/ DeleteSave(t)
        \/ Return(t)

SpecCatalog == InitCatalog /\ [][NextCatalog]_vars

\* The catalog after one call made alone.
ApplyCall(doc, r) ==
    IF r.kind = "add_song" THEN Append(doc, r.meta)
    ELSE IF r.kind = "get_songs" THEN doc
    ELSE Without(doc, r.id)

\* The catalog after the calls of log made one at a time in the order
\* order[1], order[2], ...
RECURSIVE ApplyInOrder(_, _, _)
ApplyInOrder(doc, order, k) ==
    IF k > Len(order) THEN doc
    ELSE ApplyInOrder(ApplyCall(doc, log[order[k]].req), order, k + 1)

Orders(n) == { f \in [ 1..n -> 1..n ] : \A i, j \in 1..n : f[i] = f[j] => i = j }

AllIdle == \A t \in Threads : pc[t] = "idle"

\* C1: once every concurrent add_song / delete_song_by_id call has
\* returned, songs.json holds what the same calls give when made one at a
\* time in some order: no update is lost.
C1_NoLostUpdate ==
    AllIdle =>
        \E order \in Orders(Len(log)) :
            load_db(db_file) = ApplyInOrder(load_db(db0), order, 1)

\* Two add_song calls by different threads have returned and both records
\* are in the catalog, after the n it started with.
C1_Witness ==
    /\ AllIdle
    /\ Len(log) = 2
    /\ log[1].req.kind = "add_song" /\ log[2].req.kind = "add_song"
    /\ log[1].thread # log[2].thread
    /\ Len(load_db(db_file)) = Len(load_db(db0)) + 2
    /\ \A i \in 1..2 : \E k \in 1..Len(load_db(db_file)) :
           k > Len(load_db(db0)) /\ load_db(db_file)[k] = log[i].req.meta

\* C11: get_songs on a missing or unparseable songs.json returns the empty
\* list (no call of the catalog functions ends in an exception), and an
\* add_song that finds songs.json unparseable or missing leaves a catalog
\* holding only the new record.
C11_TolerantRead ==
    /\ [](\A i \in 1..Len(log) :
            /\ log[i].resp.exc = ""
            /\ (log[i].req.kind = "get_songs" /\ log[i].after.db.state # "json")
                   => log[i].resp.json.songs = << >>)
    /\ [][\A t \in Threads :
            (AddSongLoad(t) /\ db_file.state # "json")
                => cat'[t].songs = << >>]_vars
    /\ [][\A t \in Threads :
            (AddSongSave(t) /\ db_file.state # "json")
                => db_file' = save_db(<< cat[t].arg >>)]_vars

\* get_songs returned [] for an unparseable songs.json, then add_song left
\* the one new record in it.
C11_Witness ==
    /\ db0 = CorruptDb
    /\ Len(log) = 2
    /\ log[1].req.kind = "get_songs" /\ log[1].resp.json.songs = << >>
    /\ log[1].after.db = CorruptDb
    /\ log[2].req.kind = "add_song"
    /\ db_file = save_db(<< log[2].req.meta >>)

(***************************************************************************)
(* Spec: the server as line 388 builds it, one HTTPServer thread handling  *)
(* upload, delete and list requests one after the other.                   *)
(***************************************************************************)
\* The bytes of the file a record of the initial stores stands for.
InitContent(id) == << 48 + id, 48 + id >>

InitSong(id) == SongMeta(id, s_T, s_A, << >>, EXT_MP3, Len(InitContent(id)))

\* A catalog with the listed ids, the files of `present` on disk.
InitStore(ids, present) ==
    [ db    |-> IF ids = << >> THEN MissingDb
                ELSE save_db([ i \in 1..Len(ids) |-> InitSong(ids[i]) ]),
      files |-> [ n \in { << i, EXT_MP3 >> : i \in present } |-> InitContent(n[1]) ] ]

InitStores ==
    { InitStore(<< >>, {}), InitStore(<< 1 >>, {1}), InitStore(<< 1 >>, {}),
      InitStore(<< 1, 2 >>, {1, 2}) }

\* "a.mp3"
s_a_mp3 == << 97, 46, 109, 112, 51 >>

\* "a.exe"
s_a_exe == << 97, 46, 101, 120, 101 >>

\* "text/plain"
ct_text == << 116, 101, 120, 116, 47, 112, 108, 97, 105, 110 >>

Form(title, artist, comment, filename, payload) ==
    [ content_type |-> ct_multipart, has_file |-> TRUE, title |-> title,
      artist |-> artist, comment |-> comment, filename |-> filename,
      payload |-> payload ]

\* File payloads: plain bytes, payloads ending in LF, CR and "-", bytes
\* that are not text, and a payload that is one LF.
Payloads ==
    { << 97, 98 >>, << 97, 10 >>, << 97, 13 >>, << 97, 45 >>, << 0, 255 >>,
      << 10 >> }

UploadForms ==
    { Form(s_T, s_A, << 99 >>, s_a_mp3, p) : p \in Payloads }
      \cup { Form(<< >>, << >>, << >>, s_a_mp3, << 97, 98 >>),
             Form(s_T, s_A, << >>, s_a_exe, << 97, 98 >>),
             [ Form(s_T, s_A, << >>, s_a_mp3, << >>) EXCEPT !.has_file = FALSE ],
             [ Form(s_T, s_A, << >>, s_a_mp3, << 97 >>) EXCEPT
                 !.content_type = ct_text ],
             [ Form(s_T, s_A, << >>, s_a_mp3, << 97 >>) EXCEPT
                 !.content_type = s_multipart_form_data ] }

\* The ids of DELETE requests: initial records, the first upload, no record.
DeleteIds == {1, 3, 9}

\* The q of GET /api/songs: none, and "t".
QueryStrings == { << >>, << 116 >> }

Init ==
    /\ \E st \in InitStores : db_file = st.db /\ uploads = st.files
    /\ db0 = db_file
    /\ next_uuid = 3
    /\ InitThreads
    /\ InitNoParse

Next ==
    \/ \E f \in UploadForms : ReqUpload(Main, f)
    \/ \E i \in DeleteIds : ReqDelete(Main, i)
    \/ \E q \in QueryStrings : ReqSongs(Main, q)
    \/ ApiUpload(Main)
    \/ ApiUploadWrite(Main)
    \/ ApiUploadSend(Main)
    \/ ApiDelete(Main)
    \/ ApiDeleteUnlink(Main)
    \/ ApiSongs(Main)
    \/ AddSongAcquire(Main)
    \/ AddSongLoad(Main)
    \/ AddSongSave(Main)
    \/ DeleteAcquire(Main)
    \/ DeleteLoad(Main)
    \/ DeleteSave(Main)

Spec == Init /\ [][Next]_vars

\* C2: DELETE /api/songs/<id> for an id not in the catalog answers 404 and
\* leaves songs.json and uploads/ as they were; for an id in the catalog it
\* answers 200, after which neither the record nor its backing file exists
\* (whether or not the file existed), and a second DELETE of the same id
\* right after it answers 404.
C2_IdempotentDelete ==
    \A i \in 1..Len(log) :
        log[i].req.kind = "delete" =>
            LET e     == log[i]
                songs == load_db(e.before.db)
                k     == FindSong(songs, e.req.id)
            IN  /\ k = 0 => e.resp.status = 404 /\ e.after = e.before
                /\ k # 0 =>
                     /\ e.resp.status = 200
                     /\ FindSong(load_db(e.after.db), e.req.id) = 0
                     /\ songs[k].filename \notin DOMAIN e.after.files
                     /\ (i < Len(log) /\ log[i + 1].req = e.req)
                            => log[i + 1].resp.status = 404

\* Two DELETE requests of a known id, answered 200 then 404; the backing
\* file was there before the first and is gone after it.
C2_Witness ==
    /\ Len(log) = 2
    /\ log[1].req.kind = "delete" /\ log[2].req = log[1].req
    /\ log[1].resp.status = 200 /\ log[2].resp.status = 404
    /\ \E k \in 1..Len(load_db(log[1].before.db)) :
          /\ load_db(log[1].before.db)[k].id = log[1].req.id
          /\ load_db(log[1].before.db)[k].filename \in DOMAIN log[1].before.files
          /\ load_db(log[1].before.db)[k].filename \notin DOMAIN log[1].after.files

\* C12: a POST /api/upload answered 400 leaves songs.json and uploads/ as
\* they were; an upload changes them only on its 201 path, where it adds one
\* file and appends one record naming it; and add_song saves a record only
\* when its file is already in uploads/.
C12_RejectedUploadChangesNothing ==
    /\ [](\A i \in 1..Len(log) :
            log[i].req.kind = "upload" =>
                LET e == log[i]
                IN  /\ e.resp.status \in { 400, 201 }
                    /\ e.resp.status = 400 => e.after = e.before
                    /\ e.resp.status = 201 =>
                          LET rec == e.resp.json.song
                          IN  /\ load_db(e.after.db)
                                    = Append(load_db(e.before.db), rec)
                              /\ rec.filename \notin DOMAIN e.before.files
                              /\ rec.filename \in DOMAIN e.after.files
                              /\ \A n \in DOMAIN e.before.files :
                                    /\ n \in DOMAIN e.after.files
                                    /\ e.after.files[n] = e.before.files[n])
    /\ [][AddSongSave(Main) => cat[Main].arg.filename \in DOMAIN uploads]_vars

\* An upload of a file with a refused extension was answered 400 and
\* changed nothing; the next upload was answered 201.
C12_Witness ==
    /\ Len(log) = 2
    /\ log[1].req.kind = "upload" /\ log[1].resp.status = 400
    /\ log[1].req.form.filename = s_a_exe
    \* "Unsupported format: .exe"
    /\ log[1].resp.json
         = [ error |-> s_Unsupported_format \o << 46, 101, 120, 101 >> ]
    /\ log[1].after = log[1].before
    /\ log[2].req.kind = "upload" /\ log[2].resp.status = 201
    /\ Len(load_db(db_file)) = Len(load_db(db0)) + 1

\* C6: an upload answered 201 on an empty catalog, followed by GET
\* /api/songs, lists exactly one record, with the submitted title, artist
\* and comment (the placeholders for an empty title or artist) and with
\* size the number of payload bytes, and the stored file holds the payload.
C6_UploadRoundTrip ==
    \A i \in 1..(Len(log) - 1) :
        ( /\ log[i].req.kind = "upload" /\ log[i].resp.status = 201
          /\ load_db(log[i].before.db) = << >>
          /\ log[i + 1].req.kind = "songs" /\ log[i + 1].req.q = << >> )
        => LET f     == log[i].req.form
               songs == log[i + 1].resp.json.songs
           IN  /\ Len(songs) = 1
               /\ songs[1].title = OrDefault(f.title, s_Unknown_Title)
               /\ songs[1].artist = OrDefault(f.artist, s_Unknown_Artist)
               /\ songs[1].comment = f.comment
               /\ songs[1].size = Len(f.payload)
               /\ songs[1].filename \in DOMAIN log[i + 1].before.files
               /\ log[i + 1].before.files[songs[1].filename] = f.payload

(***************************************************************************)
(* SpecStream: one GET /stream/<id> on a store holding one song, over the  *)
(* file sizes, .fc headers and Range headers below, with a client that     *)
(* may go away before any write.                                           *)
(***************************************************************************)
\* A file of n bytes, all different: "A", "B", "C", ...
FileBytes(n) == [ i \in 1..n |-> 64 + i ]

\* Sample rates as the 4 header bytes: 44100, 0, 2^31 and 2^32 - 1.
FcSampleRates ==
    { << 68, 172, 0, 0 >>, << 0, 0, 0, 0 >>, << 0, 0, 0, 128 >>,
      << 255, 255, 255, 255 >> }

\* Channel counts as the 2 header bytes: 2, 0, 32767, 32768 and 65535.
FcChannels ==
    { << 2, 0 >>, << 0, 0 >>, << 255, 127 >>, << 0, 128 >>, << 255, 255 >> }

\* The store with the one song `id` of extension ext; data is the content
\* of its file, None for a record whose file is missing.
StreamStore(id, ext, data) ==
    [ db    |-> save_db(<< SongMeta(id, s_T, s_A, << >>, ext,
                                    IF data = None THEN 0 ELSE Len(data)) >>),
      files |-> IF data = None THEN << >>
                ELSE [ n \in { << id, ext >> } |-> data ] ]

StreamStores ==
    { StreamStore(1, EXT_MP3, FileBytes(n)) : n \in 0..MaxFileLen }
      \cup { StreamStore(1, EXT_MP3, None) }
      \cup { StreamStore(1, EXT_FC, r \o c \o FileBytes(k)) :
               r \in FcSampleRates, c \in FcChannels, k \in 0..MaxFileLen }
      \cup { StreamStore(1, EXT_FC, FileBytes(5)) }

\* "abc"
s_abc == << 97, 98, 99 >>

\* "x"
s_x == << 120 >>

\* "junk"
s_junk == << 106, 117, 110, 107 >>

\* The text "bytes=<first>-<last>" of two bounds given as text.
RangeHeader(first, last) == s_bytes_eq \o first \o << 45 >> \o last

\* No header, an empty one, ones without "bytes=", and "bytes=a-b" with
\* each bound an offset up to MaxOff, omitted, or not a number.
RangeHeaders ==
    { None, << >>, s_junk, s_bytes_eq }
      \cup { RangeHeader(a, b) :
               a \in { DecStr(n) : n \in 0..MaxOff } \cup { << >>, s_x },
               b \in { DecStr(n) : n \in 0..MaxOff } \cup { << >>, s_abc } }

StreamIds == {1, 9}

InitStream ==
    /\ \E st \in StreamStores : db_file = st.db /\ uploads = st.files
    /\ db0 = db_file
    /\ next_uuid = 2
    /\ InitThreads
    /\ InitNoParse

NextStream ==
    \/ \E i \in StreamIds, h \in RangeHeaders : started = 0 /\ ReqStream(Main, i, h)
    \/ StreamLookup(Main)
    \/ StreamExists(Main)
    \/ StreamHeaders(Main)
    \/ StreamOpen(Main)
    \/ \E sent \in BOOLEAN : StreamLoop(Main, sent)
    \/ FcOpen(Main)
    \/ FcPack(Main)
    \/ \E sent \in BOOLEAN : FcWriteHeader(Main, sent)
    \/ \E sent \in BOOLEAN : FcLoop(Main, sent)

SpecStream == InitStream /\ [][NextStream]_vars

\* The finished exchange e is a GET /stream/<id> of a listed record.
StreamOf(e) ==
    e.req.kind = "stream" /\ FindSong(load_db(e.before.db), e.req.id) # 0

\* Its record.
TargetOf(e) == load_db(e.before.db)[FindSong(load_db(e.before.db), e.req.id)]

\* e went down the range path: a record that is not .fc, its file on disk.
RangePath(e) ==
    /\ StreamOf(e)
    /\ TargetOf(e).ext # EXT_FC
    /\ TargetOf(e).filename \in DOMAIN e.before.files

\* e went down the transcoder path.
FcPath(e) ==
    /\ StreamOf(e)
    /\ TargetOf(e).ext = EXT_FC
    /\ TargetOf(e).filename \in DOMAIN e.before.files

\* The bytes of the file e streams.
DataOf(e) == e.before.files[TargetOf(e).filename]

\* C3: on a stored non-.fc file of N bytes, "Range: bytes=a-b" with
\* 0 <= a <= b < N is answered 206 with Content-Range "bytes a-b/N",
\* Content-Length b-a+1 and (the client taking every write) the bytes a..b
\* of the file; "Range: bytes=0-" is answered 206 with Content-Range
\* "bytes 0-(N-1)/N" and the N bytes of the file.
C3_RangeCorrect ==
    \A i \in 1..Len(log) :
        RangePath(log[i]) =>
            LET e == log[i]
                N == Len(DataOf(e))
            IN  /\ \A a, b \in 0..(N - 1) :
                     (a <= b /\ e.req.range = RangeHeader(DecStr(a), DecStr(b))) =>
                         /\ e.resp.status = 206
                         /\ e.resp.content_range = ContentRange(a, b, N)
                         /\ e.resp.content_length = DecStr(b - a + 1)
                         /\ ~e.resp.write_failed =>
                                e.resp.body = SubSeq(DataOf(e), a + 1, b + 1)
                /\ e.req.range = RangeHeader(DecStr(0), << >>) =>
                         /\ e.resp.status = 206
                         /\ e.resp.content_range = ContentRange(0, N - 1, N)
                         /\ ~e.resp.write_failed => e.resp.body = DataOf(e)

\* A proper sub-range of two bytes or more was asked for and streamed.
C3_Witness ==
    \E i \in 1..Len(log) :
        /\ RangePath(log[i])
        /\ \E a, b \in 1..(Len(DataOf(log[i])) - 1) :
              /\ a < b
              /\ log[i].req.range = RangeHeader(DecStr(a), DecStr(b))
              /\ log[i].resp.status = 206
              /\ log[i].resp.body = SubSeq(DataOf(log[i]), a + 1, b + 1)

\* C4: on the range path, whatever the Range header, when no write fails
\* the number of body bytes written is the Content-Length sent.
C4_BodyIsContentLength ==
    \A i \in 1..Len(log) :
        (RangePath(log[i]) /\ ~log[i].resp.write_failed /\ log[i].resp.exc = "")
            => log[i].resp.content_length = DecStr(Len(log[i].resp.body))

\* The Range header h is one the code cannot parse: it does not begin with
\* "bytes=", or a bound that is given is not an integer.
Unparseable(h) ==
    \/ ~StartsWith(h, s_bytes_eq)
    \/ LET parts == Split(From(h, 6), << 45 >>)
       IN  \/ parts[1] # << >> /\ ~ParseInt(parts[1]).ok
           \/ Len(parts) > 1 /\ parts[2] # << >> /\ ~ParseInt(parts[2]).ok

\* C7: with a Range header that cannot be parsed, _stream describes and
\* streams the whole file: Content-Range "bytes 0-(N-1)/N", Content-Length
\* N, the N bytes, and no error response.
C7_UnparseableIsFullFile ==
    \A i \in 1..Len(log) :
        (RangePath(log[i]) /\ log[i].req.range # None
                           /\ Unparseable(log[i].req.range)) =>
            LET e == log[i]
                N == Len(DataOf(e))
            IN  /\ e.resp.status \in {200, 206}
                /\ e.resp.content_range = ContentRange(0, N - 1, N)
                /\ e.resp.content_length = DecStr(N)
                /\ ~e.resp.write_failed => e.resp.body = DataOf(e)

\* C8 as stated: on the range path the status is 206 whenever the request
\* has a Range header, whatever its value, and 200 exactly when it has
\* none.
C8_Status206IfHeaderPresent ==
    \A i \in 1..Len(log) :
        RangePath(log[i]) =>
            /\ log[i].req.range # None => log[i].resp.status = 206
            /\ log[i].req.range = None <=> log[i].resp.status = 200

\* C8 amended: on the range path the status is 206 whenever the request
\* has a Range header with a non-empty value (parseable or not), and 200
\* exactly when the header is absent or empty.
C8_Status206IfHeaderNonEmpty ==
    \A i \in 1..Len(log) :
        RangePath(log[i]) =>
            /\ (log[i].req.range # None /\ log[i].req.range # << >>)
                   => log[i].resp.status = 206
            /\ (log[i].req.range = None \/ log[i].req.range = << >>)
                   <=> log[i].resp.status = 200

\* A header that is no range at all was answered 206, and an empty one 200.
C8_Witness ==
    \E i \in 1..Len(log) :
        /\ RangePath(log[i])
        /\ \/ log[i].req.range = s_junk /\ log[i].resp.status = 206
           \/ log[i].req.range = << >> /\ log[i].resp.status = 200

\* C9: a write that fails with a broken pipe, on the range path or on the
\* transcoder path, ends the streaming silently: the handler returns
\* normally, no exception leaves it, and songs.json and uploads/ are as
\* before.
C9_BrokenPipeIsSilent ==
    \A i \in 1..Len(log) :
        (StreamOf(log[i]) /\ log[i].resp.write_failed) =>
            /\ log[i].resp.exc = ""
            /\ log[i].after = log[i].before

\* The response the claim describes for a .fc file: the 44-byte header for
\* sample rate R and channel count C (the header's bytes) and K bytes of
\* PCM, then the PCM.
ClaimedWav(data) ==
    LET R   == Slice(data, 0, 4)
        C   == Slice(data, 4, 6)
        pcm == From(data, 6)
    IN  s_RIFF \o ToLE(BigOfInt(36 + Len(pcm)), 4) \o s_WAVE \o s_fmt
          \o ToLE(BigOfInt(16), 4) \o ToLE(BigOfInt(1), 2) \o C \o R
          \o ToLE(BigMulSmall(BigMul(R, C), 2, 0), 4)
          \o ToLE(BigMulSmall(C, 2, 0), 2) \o ToLE(BigOfInt(16), 2)
          \o s_data \o ToLE(BigOfInt(Len(pcm)), 4) \o pcm

\* C10: a stored .fc file of 6 header bytes and K >= 0 bytes of PCM is
\* answered 200 whatever the Range header, with the 44-byte WAV header of
\* its sample rate and channel count followed by the PCM, for every sample
\* rate below 2^32 and every channel count below 2^16.
C10_FcStreamsAsWav ==
    \A i \in 1..Len(log) :
        (FcPath(log[i]) /\ Len(DataOf(log[i])) >= 6) =>
            /\ log[i].resp.status = 200
            /\ log[i].resp.exc \in { "", "BrokenPipeError" }
            /\ ~log[i].resp.write_failed =>
                   log[i].resp.body = ClaimedWav(DataOf(log[i]))

(***************************************************************************)
(* SpecParse: _parse_multipart called on the bodies made of up to MaxParts *)
(* of the parts below and the closing delimiter, with boundary "XX".       *)
(***************************************************************************)
Part(kind, name, filename, content) ==
    [ kind |-> kind, name |-> name, filename |-> filename, content |-> content ]

\* "b.ogg"
s_b_ogg == << 98, 46, 111, 103, 103 >>

\* "no blank line"
s_no_blank_line ==
    << 110, 111, 32, 98, 108, 97, 110, 107, 32, 108, 105, 110, 101 >>

\* Two values of the field "title", three file parts (one whose payload
\* ends in LF), a file part with an empty filename, a part without the
\* blank line, and an empty part.
PartPool ==
    { Part("field", s_title, << >>, << 84, 49 >>),
      Part("field", s_title, << >>, << 84, 50 >>),
      Part("file", s_file, s_a_mp3, << 65, 65 >>),
      Part("file", s_file, s_b_ogg, << 66, 66 >>),
      Part("file", s_file, s_a_mp3, << 67, 10 >>),
      Part("file", s_file, << >>, << 68 >>),
      Part("raw", << >>, << >>, DASHDASH \o s_XX \o CRLF \o s_no_blank_line \o CRLF),
      Part("raw", << >>, << >>, DASHDASH \o s_XX) }

\* The bytes of one part.
EncodePart(p) ==
    IF p.kind = "field" THEN FieldPart(p.name, p.content)
    ELSE IF p.kind = "file" THEN FilePart(p.name, p.filename, p.content)
    ELSE p.content

RECURSIVE EncodeParts(_)
EncodeParts(ps) ==
    IF Len(ps) = 0 THEN ClosePart ELSE EncodePart(Head(ps)) \o EncodeParts(Tail(ps))

RECURSIVE PartSeqs(_)
PartSeqs(n) ==
    IF n = 0 THEN { << >> }
    ELSE PartSeqs(n - 1)
           \cup { Append(ps, p) : ps \in { q \in PartSeqs(n - 1) : Len(q) = n - 1 },
                                  p \in PartPool }

InitParse ==
    /\ pin \in PartSeqs(MaxParts)
    /\ pout = [ done |-> FALSE, result |-> NoParse ]
    /\ db_file = MissingDb
    /\ db0 = db_file
    /\ uploads = << >>
    /\ next_uuid = 1
    /\ InitThreads

\* fields, file_data, filename = self._parse_multipart(body, boundary)
CallParseMultipart ==
    /\ ~pout.done
    /\ pout' = [ done |-> TRUE,
                 result |-> parse_multipart(EncodeParts(pin), s_XX) ]
    /\ UNCHANGED << db_file, uploads, db_lock, next_uuid, pc, req, loc, cat,
                    resp, before, log, db0, started, pin >>

NextParse == CallParseMultipart

SpecParse == InitParse /\ [][NextParse]_vars

\* The positions in pin of the parts that carry a non-empty filename.
FileParts == { i \in 1..Len(pin) : pin[i].kind = "file" /\ pin[i].filename # << >> }

\* What the decoder returns for the body holding the one part p.
AloneParse(p) == parse_multipart(EncodePart(p) \o ClosePart, s_XX)

\* C5 as stated: of several parts carrying a filename, the file returned
\* (bytes and name) is that of the first.
C5_FirstFilePartKept ==
    (pout.done /\ FileParts # {}) =>
        /\ pout.result.filename = pin[Min(FileParts)].filename
        /\ pout.result.file_data = AloneParse(pin[Min(FileParts)]).file_data

\* C5 amended: _parse_multipart returns at most one file (none when no
\* part carries a non-empty filename), and of several parts carrying a
\* non-empty filename the file returned, bytes and name, is the one the
\* decoder extracts from the LAST such part; earlier file parts are dropped.
C5_LastFilePartKept ==
    pout.done =>
        IF FileParts = {}
        THEN pout.result.filename = None /\ pout.result.file_data = None
        ELSE /\ pout.result.filename = pin[Max(FileParts)].filename
             /\ pout.result.file_data = AloneParse(pin[Max(FileParts)]).file_data
             /\ pout.result.file_data # None

\* A body with two file parts of different names and bytes was decoded, and
\* the second one came back.
C5_Witness ==
    /\ pout.done
    /\ Cardinality(FileParts) >= 2
    /\ pin[Min(FileParts)].filename # pin[Max(FileParts)].filename
    /\ pin[Min(FileParts)].content # pin[Max(FileParts)].content
    /\ pout.result.filename = pin[Max(FileParts)].filename
    /\ pout.result.file_data = pin[Max(FileParts)].content

\* The positions in pin of the well-formed parts that carry a name and no
\* (or an empty) filename.
FieldParts ==
    { i \in 1..Len(pin) :
        \/ pin[i].kind = "field"
        \/ pin[i].kind = "file" /\ pin[i].filename = << >> }

\* The positions of the parts named name among them.
FieldPartsNamed(name) == { i \in FieldParts : pin[i].name = name }

\* C15: _parse_multipart returns for every body; an empty part, the
\* closing part and a part without a blank line give no field and no file
\* (alone or among other parts); every well-formed field part of the body
\* is returned under its name, with the value the decoder extracts from the
\* last part of that name.
C15_MalformedPartsIgnored ==
    /\ \A p \in PartPool : p.kind = "raw" => AloneParse(p) = NoParse
    /\ pout.done =>
          /\ DOMAIN pout.result.fields = { pin[i].name : i \in FieldParts }
          /\ \A i \in FieldParts :
                LET last == Max(FieldPartsNamed(pin[i].name))
                IN  /\ pout.result.fields[pin[i].name]
                          = AloneParse(pin[last]).fields[pin[i].name]
                    /\ pout.result.fields[pin[i].name] = Decode(pin[last].content)
          /\ (FileParts = {}) => pout.result.file_data = None

\* A body holding title=T1, a part without a blank line and title=T2 was
\* decoded to the one field title=T2 and no file.
C15_Witness ==
    /\ pout.done
    /\ Len(pin) = 3
    /\ pin[1] = Part("field", s_title, << >>, << 84, 49 >>)
    /\ pin[2].kind = "raw" /\ Contains(pin[2].content, s_no_blank_line)
    /\ pin[3] = Part("field", s_title, << >>, << 84, 50 >>)
    /\ pout.result = [ NoParse EXCEPT !.fields = DictPut(<< >>, s_title, << 84, 50 >>) ]

(***************************************************************************)
(* SpecRead: GET /api/songs and GET /api/random, one after the other, on   *)
(* catalogs of up to three records.                                        *)
(***************************************************************************)
\* A record with the given id, title and artist.
ReadSong(id, title, artist) == SongMeta(id, title, artist, << >>, EXT_MP3, 0)

\* Records titled "Ab", "c" and "B", by "x", "aB" and "".
ReadSongs ==
    << ReadSong(1, << 65, 98 >>, << 120 >>),
       ReadSong(2, << 99 >>, << 97, 66 >>),
       ReadSong(3, << 66 >>, << >>) >>

\* songs.json missing, unparseable, and holding one, two or three records.
ReadCatalogs ==
    { MissingDb, CorruptDb, save_db(<< >>),
      save_db(<< ReadSongs[1] >>), save_db(<< ReadSongs[2] >>),
      save_db(<< ReadSongs[1], ReadSongs[2] >>),
      save_db(<< ReadSongs[3], ReadSongs[1] >>),
      save_db(ReadSongs) }

\* The q of GET /api/songs: "", "a", "AB", "b", "bc", "z".
ReadQueries ==
    { << >>, << 97 >>, << 65, 66 >>, << 98 >>, << 98, 99 >>, << 122 >> }

\* The exclude of GET /api/random: none, ids of records, and an unknown id.
ReadExcludes == { NoExclude, 1, 2, 9 }

InitRead ==
    /\ db_file \in ReadCatalogs
    /\ db0 = db_file
    /\ uploads = << >>
    /\ next_uuid = 4
    /\ InitThreads
    /\ InitNoParse

NextRead ==
    \/ \E q \in ReadQueries : ReqSongs(Main, q)
    \/ \E x \in ReadExcludes : ReqRandom(Main, x)
    \/ ApiSongs(Main)
    \/ ApiRandom(Main)

SpecRead == InitRead /\ [][NextRead]_vars

\* C13: GET /api/random?exclude=<id> answers 404 exactly when the catalog
\* is empty; otherwise it answers 200 with a record of the catalog, whose id
\* is not the excluded one whenever the catalog holds a record of another
\* id; the catalog is left as it was.
C13_RandomRespectsExclude ==
    \A i \in 1..Len(log) :
        log[i].req.kind = "random" =>
            LET e     == log[i]
                songs == load_db(e.before.db)
            IN  /\ e.resp.status \in { 200, 404 }
                /\ e.resp.status = 404 <=> songs = << >>
                /\ e.resp.status = 200 =>
                     /\ \E k \in 1..Len(songs) : songs[k] = e.resp.json
                     /\ (\E k \in 1..Len(songs) : songs[k].id # e.req.exclude)
                            => e.resp.json.id # e.req.exclude
                /\ e.after = e.before

\* Two requests excluding record 2 of a catalog of three were answered
\* with the two other records.
C13_Witness ==
    /\ Len(log) = 2
    /\ db0 = save_db(ReadSongs)
    /\ log[1].req = [ kind |-> "random", exclude |-> 2 ]
    /\ log[1].resp.status = 200 /\ log[1].resp.json.id = 3
    /\ log[2].req = [ kind |-> "random", exclude |-> 2 ]
    /\ log[2].resp.status = 200 /\ log[2].resp.json.id = 1

\* Two characters that are equal, or the two cases of one ASCII letter.
SameLetter(a, b) ==
    \/ a = b
    \/ a \in 65..90 /\ b = a + 32
    \/ b \in 65..90 /\ a = b + 32

\* text holds q at some offset, whatever the case of the letters.
HasIgnoringCase(text, q) ==
    \E k \in 0..(Len(text) - Len(q)) :
        \A j \in 1..Len(q) : SameLetter(text[k + j], q[j])

\* C14: GET /api/songs?q=<s> answers 200 with, in catalog order, exactly
\* the records whose title or artist holds s whatever the case of the
\* letters, with the whole catalog for an empty or absent q, and leaves the
\* catalog as it was.
C14_SearchIsCaseInsensitive ==
    \A i \in 1..Len(log) :
        log[i].req.kind = "songs" =>
            LET e      == log[i]
                songs  == load_db(e.before.db)
                Hit(s) == \/ HasIgnoringCase(s.title, e.req.q)
                          \/ HasIgnoringCase(s.artist, e.req.q)
            IN  /\ e.resp.status = 200
                /\ e.resp.json.songs = SelectSeq(songs, Hit)
                /\ e.req.q = << >> => e.resp.json.songs = songs
                /\ e.after = e.before

\* q = "AB" on the catalog of three returned records 1 (title "Ab") and 2
\* (artist "aB"), in that order, and not record 3.
C14_Witness ==
    /\ Len(log) >= 1
    /\ db0 = save_db(ReadSongs)
    /\ log[1].req = [ kind |-> "songs", q |-> << 65, 66 >> ]
    /\ log[1].resp.json.songs = << ReadSongs[1], ReadSongs[2] >>

(***************************************************************************)
(* SpecServe: the handlers run by concurrent threads, as db_lock (line 33) *)
(* provides for: uploads, deletes and streams of .mp3 songs interleaved at *)
(* every access to songs.json and to uploads/.  Nothing else touches the   *)
(* upload directory, and the stores at the start hold a file for every     *)
(* record.                                                                 *)
(***************************************************************************)
ServeStores == { InitStore(<< >>, {}), InitStore(<< 1 >>, {1}) }

\* The upload of a.mp3, two bytes.
ServeForms == { Form(s_T, s_A, << >>, s_a_mp3, << 97, 98 >>) }

\* The ids of DELETE and GET /stream requests: the record of the store and
\* the first upload.
ServeIds == {1, 2}

\* GET /stream requests carry no Range header.
ServeRanges == { None }

\* Each request is handled by a thread of its own; the threads being alike,
\* it takes the first one that is idle.
FirstIdle ==
    IF \E t \in Threads : pc[t] = "idle"
    THEN Min({ t \in Threads : pc[t] = "idle" })
    ELSE Main

InitServe ==
    /\ \E st \in ServeStores : db_file = st.db /\ uploads = st.files
    /\ db0 = db_file
    /\ next_uuid = 2
    /\ InitThreads
    /\ InitNoParse

NextServe ==
    \E t \in Threads :
        \/ \E f \in ServeForms : t = FirstIdle /\ ReqUpload(t, f)
        \/ \E i \in ServeIds : t = FirstIdle /\ ReqDelete(t, i)
        \/ \E i \in ServeIds, h \in ServeRanges :
              t = FirstIdle /\ ReqStream(t, i, h)
        \/ ApiUpload(t)
        \/ ApiUploadWrite(t)
        \/ ApiUploadSend(t)
        \/ ApiDelete(t)
        \/ ApiDeleteUnlink(t)
        \/ AddSongAcquire(t)
        \/ AddSongLoad(t)
        \/ AddSongSave(t)
        \/ DeleteAcquire(t)
        \/ DeleteLoad(t)
        \/ DeleteSave(t)
        \/ StreamLookup(t)
        \/ StreamExists(t)
        \/ StreamHeaders(t)
        \/ StreamOpen(t)
        \/ \E sent \in BOOLEAN : StreamLoop(t, sent)

SpecServe == InitServe /\ [][NextServe]_vars

\* C16: in every state, every record of songs.json has its file in
\* uploads/.
C16_RecordHasFile ==
    \A k \in 1..Len(load_db(db_file)) :
        load_db(db_file)[k].filename \in DOMAIN uploads

\* An upload and a DELETE of another record, handled by two threads at the
\* same time, have both succeeded.
C16_Witness ==
    /\ Len(log) = 2
    /\ log[1].thread # log[2].thread
    /\ \E i, j \in 1..2 :
          /\ log[i].req.kind = "upload" /\ log[i].resp.status = 201
          /\ log[j].req.kind = "delete" /\ log[j].resp.status = 200
          /\ log[j].req.id = 1
    /\ log[2].before.db = db0
    /\ Len(load_db(db_file)) = 1
    /\ load_db(db_file)[1].id = 2

\* C17: a DELETE request is answered 200 only when its own call of
\* delete_song_by_id returned True, so of the DELETE requests for one id at
\* most one is answered 200.
C17_OneDeleteAnswered200 ==
    /\ [](\A i, j \in 1..Len(log) :
            (/\ i # j
             /\ log[i].req.kind = "delete" /\ log[j].req = log[i].req
             /\ log[i].resp.status = 200)
                => log[j].resp.status = 404)
    /\ [][\A t \in Threads : ApiDeleteUnlink(t) => cat[t].ret]_vars

\* C18: a GET /stream/<id> ends in 404 "Not found", in 404 "File missing",
\* or in 200 or 206 with its body, and never in an exception leaving the
\* handler, whatever DELETE runs beside it.
C18_StreamNeverRaises ==
    \A i \in 1..Len(log) :
        log[i].req.kind = "stream" =>
            /\ log[i].resp.exc = ""
            /\ \/ /\ log[i].resp.status = 404
                  /\ log[i].resp.json \in { [ error |-> s_Not_found ],
                                            [ error |-> s_File_missing ] }
               \/ log[i].resp.status \in { 200, 206 }


(***************************************************************************)
(* The streaming loop on files larger than one chunk.  One GET /stream/1   *)
(* of a stored .mp3 file whose size is 0, MaxFileLen, CHUNK_SIZE, one      *)
(* chunk and MaxFileLen bytes or two, with no Range header                 *)
(* or with "bytes=a-b" whose bounds lie before, at and past the chunk      *)
(* boundaries and past the end of the file.  The handler thread is never   *)
(* suspended for ever: every socket write returns or raises.               *)
(***************************************************************************)
LoopSizes ==
    { 0, MaxFileLen, CHUNK_SIZE, CHUNK_SIZE + MaxFileLen,
      2 * CHUNK_SIZE + MaxFileLen }

\* The content of a file of n bytes.
LoopBytes(n) == [ i \in 1..n |-> i % 251 ]

LoopStores == { StreamStore(1, EXT_MP3, LoopBytes(n)) : n \in LoopSizes }

LoopFirsts == { 0, 1, CHUNK_SIZE, 3 * CHUNK_SIZE }

LoopLasts == { 0, CHUNK_SIZE - 1, CHUNK_SIZE, 2 * CHUNK_SIZE, 4 * CHUNK_SIZE }

LoopRanges ==
    { None }
      \cup { RangeHeader(DecStr(a), b) :
               a \in LoopFirsts, b \in { DecStr(n) : n \in LoopLasts } \cup { << >> } }

InitLoop ==
    /\ \E st \in LoopStores : db_file = st.db /\ uploads = st.files
    /\ db0 = db_file
    /\ next_uuid = 2
    /\ InitThreads
    /\ InitNoParse

NextLoop ==
    \/ \E h \in LoopRanges : started = 0 /\ ReqStream(Main, 1, h)
    \/ StreamLookup(Main)
    \/ StreamExists(Main)
    \/ StreamHeaders(Main)
    \/ StreamOpen(Main)
    \/ \E sent \in BOOLEAN : StreamLoop(Main, sent)

SpecLoop ==
    /\ InitLoop
    /\ [][NextLoop]_vars
    /\ WF_vars(\E sent \in BOOLEAN : StreamLoop(Main, sent))

\* start and length (lines 284-294) of the request thread t is serving.
LoopStart(t) ==
    RangeBounds(req[t].range, Len(uploads[loc[t].target.filename])).start

LoopLength(t) ==
    LET se == RangeBounds(req[t].range, Len(uploads[loc[t].target.filename]))
    IN  RangeLength(se.start, se.end)

\* C19: the streaming loop of _stream terminates for every file size and
\* every start and end computed from the Range header, a start past the end
\* of the file and a non-positive length included.  Between iterations the
\* bytes written so far are the consecutive file bytes from offset start
\* and remaining is length minus their number; an iteration that goes on
\* writes one chunk of 1 to CHUNK_SIZE bytes, the next bytes of the file,
\* and leaves remaining smaller and not negative; the loop stops only when
\* remaining is not positive, at the end of the file, or on a failed write;
\* and a handler in the loop always leaves it.
C19_LoopTerminates ==
    /\ [](\A t \in Threads : pc[t] = "stream:loop" =>
            /\ loc[t].pos - Len(resp[t].body) = LoopStart(t)
            /\ resp[t].body = Slice(loc[t].f, LoopStart(t), loc[t].pos)
            /\ loc[t].remaining = LoopLength(t) - Len(resp[t].body))
    /\ [][\A t \in Threads : \A sent \in BOOLEAN : StreamLoop(t, sent) =>
            LET l == loc[t]
                n == Len(resp'[t].body) - Len(resp[t].body)
            IN  IF pc'[t] = "stream:loop"
                THEN /\ n \in 1..CHUNK_SIZE
                     /\ resp'[t].body
                          = resp[t].body \o Slice(l.f, l.pos, l.pos + n)
                     /\ loc'[t].pos = l.pos + n
                     /\ loc'[t].remaining = l.remaining - n
                     /\ loc'[t].remaining >= 0
                     /\ loc'[t].remaining < l.remaining
                ELSE /\ log' = Append(log, log'[Len(log')])
                     /\ log'[Len(log')].resp.body = resp[t].body
                     /\ \/ l.remaining <= 0
                        \/ l.pos >= Len(l.f)
                        \/ log'[Len(log')].resp.write_failed ]_vars
    /\ \A t \in Threads : (pc[t] = "stream:loop") ~> (pc[t] # "stream:loop")

\* "bytes=1-65535" asked of the file of MaxFileLen bytes: the loop has written
\* the bytes from offset 1 to the end of the file in one iteration, has met
\* the end of the file in the next with remaining still positive, and has
\* stopped.
C19_Witness ==
    /\ Len(log) = 1
    /\ log[1].req.kind = "stream"
    /\ log[1].req.range = RangeHeader(DecStr(1), DecStr(CHUNK_SIZE - 1))
    /\ DataOf(log[1]) = LoopBytes(MaxFileLen)
    /\ log[1].resp.status = 206
    /\ log[1].resp.content_length = DecStr(CHUNK_SIZE - 1)
    /\ log[1].resp.body = Slice(LoopBytes(MaxFileLen), 1, MaxFileLen)
    /\ ~log[1].resp.write_failed
    /\ log[1].resp.exc = ""

=============================================================================
